---- MODULE Spec2Model ----
(***************************************************************************)
(* A model of the caching and request-coordination layer of the Wikipedia  *)
(* MCP API: CachingService (src/src/caching_service.py) over its four      *)
(* backends, the wrapper that cached() returns and its cache key, the rate *)
(* limiter of WikipediaClient (src/src/wikipedia_client.py), and the       *)
(* search tool that calls it (src/mcp_server.py).                          *)
(*                                                                         *)
(* The ttl and lru backends are cachetools' TTLCache and LRUCache, the     *)
(* disk backend is diskcache's Cache; they are modelled by what the        *)
(* library does for the calls caching_service.py makes (cachetools 5:      *)
(* an entry is live while timer() < expires).                              *)
(***************************************************************************)
EXTENDS Integers, Sequences, FiniteSets, TLC

VARIABLES
    cache_type,         \* self.cache_type
    maxsize,            \* self.maxsize
    ttl,                \* self.ttl
    cache,              \* self.cache of the ttl, lru and persist variants, in order
    cache_shape,        \* the Python type self.cache holds: "mapping", "list", "string"
    file,               \* <cache_dir>/cache.json
    store,              \* the diskcache directory, rows in access_time order
    now,                \* the clock (time.monotonic / time.time), in whole seconds
    last,               \* the last CachingService call and what it returned
    stored,             \* history: one watched set(k, v), its time, while k is not written, deleted or evicted
    fresh,              \* history: this instance was constructed and initialized, nothing written since
    lruIns,             \* history: the distinct keys inserted since the cache was empty
    lruReads,           \* history: the gets that hit since then, as <<key, inserts so far>>
    lruScen,            \* history: "tracking", "done" (just after insert maxsize+1), "off"
    rate_limit_delay,   \* WikipediaClient.rate_limit_delay
    last_request_time,  \* WikipediaClient.last_request_time
    wall,               \* time.time(), in whole seconds
    pc,                 \* per caller: where it is in search / get_article / get_summary
    wake,               \* per caller: the time its time.sleep is over
    outcome,            \* per caller: how its last upstream call ended
    dispatches,         \* history: the times of the last two dispatches, oldest first
    seen,               \* per caller: the last_request_time it read
    term,               \* per caller: the search term of the request it serves
    prevOk,             \* history: the term of the request before, if it succeeded
    served,             \* history: the other tasks the event loop has run
    mpc,                \* per task: where it is in the wrapper that cached() returns
    marg,               \* per task: the arguments of its call
    mres,               \* per task: what the wrapped function returned
    mlog,               \* history: the last two calls of the wrapper that are over
    reqs,               \* two calls whose cache keys are derived
    keys,               \* their cache keys, once derived
    attempt,            \* history: the last CachingService(...) call and what it raised
    job,                \* per setter: its set as the worker pool sees it
    caller,             \* per setter: the task that awaits the set
    before,             \* history: what get gave for each key when the first setter began
    requests,           \* RateLimitMiddleware.requests
    rate_limit2,        \* twice RateLimitMiddleware.rate_limit, a float in steps of 0.5
    window_size,        \* RateLimitMiddleware.window_size
    accepted,           \* history: per IP, the times of the requests let through
    verdict             \* history: the last request, its time and whether it was let through

cacheVars == <<cache_type, maxsize, ttl, cache, cache_shape, file, store, now, last>>
histVars == <<stored, fresh, lruIns, lruReads, lruScen>>
rateVars == <<rate_limit_delay, last_request_time, wall, pc, wake, outcome, dispatches,
              seen, term, prevOk, served>>
memoVars == <<mpc, marg, mres, mlog>>
keyVars == <<reqs, keys>>
ctorVars == <<attempt>>
poolVars == <<job, caller, before>>
gateVars == <<requests, rate_limit2, window_size, accepted, verdict>>
vars == <<cacheVars, histVars, rateVars, memoVars, keyVars, ctorVars, poolVars, gateVars>>

(* ------------------------------- bounds ------------------------------- *)

MaxSizeBound == 2
MaxTTL == 2
MaxTime == 2

Keys == {"k1", "k2", "k3"}
PersistKeys == {"k1", "k2"}
MaxDelay == 2
MaxWall == 6
Callers == {"c1", "c2"}
Values == {"v1", "v2"}
CacheTypes == {"ttl", "lru", "persist", "disk"}
MaxServed == 1
Terms == {"t1", "t2"}
Tasks == {"m1", "m2"}
Setters == {"s1", "s2"}
IPs == {"ip1", "ip2"}
MaxGateTime == 3
MaxLimit2 == 4
MaxWindow == 2
Args == {"a1", "a2"}

(* ------------------------------ payloads ------------------------------ *)

\* What a cache slot or a return value can be: Python's None, a value that was
\* set, or a {"value": v, "expiry": e} object read from a cache.json file.
None == [kind |-> "none", v |-> "", expiry |-> 0]
Plain(v) == [kind |-> "value", v |-> v, expiry |-> 0]
Entry(v, e) == [kind |-> "entry", v |-> v, expiry |-> e]

Item(k, p, e) == [key |-> k, value |-> p, expires |-> e]

KeysOf(c) == {c[i].key : i \in 1..Len(c)}
Has(c, k) == k \in KeysOf(c)
IndexOf(c, k) == CHOOSE i \in 1..Len(c) : c[i].key = k
Lookup(c, k) == IF Has(c, k) THEN c[IndexOf(c, k)].value ELSE None
Remove(c, k) == SelectSeq(c, LAMBDA it : it.key # k)

(* ------------------- cachetools: Cache, LRUCache, TTLCache ------------------- *)

\* Cache.__setitem__'s loop "while currsize + size > maxsize: self.popitem()",
\* every item of size 1; popitem removes the head of the recency order.
RECURSIVE PopUntilFits(_, _)
PopUntilFits(c, n) ==
    IF Len(c) + 1 > n /\ c # <<>> THEN PopUntilFits(Tail(c), n) ELSE c

\* LRUCache.__setitem__: evict for a new key, store, move the key to the end.
\* With maxsize < 1 the item is larger than the cache: Cache.__setitem__ raises
\* ValueError("value too large") and nothing is stored.
LRUSetItem(c, k, p, n) ==
    LET kept == IF Has(c, k) THEN c ELSE PopUntilFits(c, n)
    IN  IF n < 1 THEN c ELSE Append(Remove(kept, k), Item(k, p, 0))

\* Cache.get on an LRUCache: the value, or None when the key is missing.
LRUGetValue(c, k) == Lookup(c, k)

LRUGetCacheNoTouch(c, k) == c

\* LRUCache.__getitem__ moves the key it finds to the end of the order.
LRUGetCache(c, k) ==
    IF Has(c, k) THEN Append(Remove(c, k), c[IndexOf(c, k)]) ELSE c

\* TTLCache.expire(time): drops every link with not (time < link.expires).
TTLExpire(c, t) == SelectSeq(c, LAMBDA it : t < it.expires)

TTLContainsInclusive(c, k, t) == Has(c, k) /\ t <= c[IndexOf(c, k)].expires

\* TTLCache.__contains__: the key is held and time < its expires.
TTLContains(c, k, t) == Has(c, k) /\ t < c[IndexOf(c, k)].expires

\* TTLCache.__setitem__: expire, evict for a new key (popitem expires again and
\* pops the least recently used), store, move to the end, expires = time + ttl.
\* With maxsize < 1 the store raises ValueError after the expire.
TTLSetItem(c, k, p, n, t, life) ==
    LET live == TTLExpire(c, t)
        kept == IF Has(live, k) THEN live ELSE PopUntilFits(live, n)
    IN  IF n < 1 THEN live ELSE Append(Remove(kept, k), Item(k, p, t + life))

\* Cache.get on a TTLCache: "if key in self: return self[key]".
TTLGetValue(c, k, t) == IF TTLContains(c, k, t) THEN Lookup(c, k) ELSE None

\* TTLCache.__getitem__ moves a live key to the end of the order; an expired
\* one stays where it is until the next expire().
TTLGetCache(c, k, t) ==
    IF TTLContains(c, k, t) THEN Append(Remove(c, k), c[IndexOf(c, k)]) ELSE c

(* --------------------------- the persist dict --------------------------- *)

\* A dict is kept as its items in key order: get, set, delete, len and
\* json.dumps/json.loads depend on the mapping alone, so equal mappings are
\* one state.
KeyRank(k) == CASE k = "k1" -> 1 [] k = "k2" -> 2 [] OTHER -> 3

\* dict.__setitem__: the key now maps to the value.
DictSetItem(c, k, p) ==
    SelectSeq(c, LAMBDA it : KeyRank(it.key) < KeyRank(k))
        \o <<Item(k, p, 0)>>
        \o SelectSeq(c, LAMBDA it : KeyRank(it.key) > KeyRank(k))

(* ------------------------------ diskcache ------------------------------ *)

\* The bytes a stored value takes: a 1 KiB and a 1 MiB payload.
ValueSize(p) == IF p.v = "v1" THEN 1024 ELSE 1048576

RECURSIVE Volume(_)
Volume(s) == IF s = <<>> THEN 0 ELSE ValueSize(s[1].value) + Volume(Tail(s))

\* size_limit = maxsize * 1024 * 1024
SizeLimit(n) == n * 1024 * 1024

\* diskcache's default cull_limit.
CullLimit == 10

\* Cache._cull after a set: nothing while volume < size_limit, else one DELETE
\* of the cull_limit least recently used rows.
DiskCull(s, n) ==
    IF Volume(s) < SizeLimit(n) THEN s
    ELSE IF Len(s) <= CullLimit THEN <<>>
    ELSE SubSeq(s, CullLimit + 1, Len(s))

\* Cache.set: insert or update the row (access_time = now), then cull.
DiskSet(s, k, p, n) == DiskCull(Append(Remove(s, k), Item(k, p, 0)), n)

\* Cache.get under least-recently-used: the value and a fresh access_time.
DiskGetStore(s, k) ==
    IF Has(s, k) THEN Append(Remove(s, k), s[IndexOf(s, k)]) ELSE s

(* ------------------------- cache.json, load and save ------------------------- *)

FileOf(kind, items) == [kind |-> kind, items |-> items]

\* What cache.json can hold when a service is first brought up on a directory:
\* nothing, bytes that cannot be read or parsed, JSON that is no object (null,
\* a number, the list [], the string ""), the list ["k1", "k2"] (its elements
\* kept as items without a value), or an object of {"value", "expiry"} entries
\* left by an earlier run.
InitialFiles ==
    {FileOf(kind, <<>>) :
        kind \in {"absent", "unreadable", "malformed", "null", "number", "list", "string"}}
    \cup {FileOf("list", <<Item("k1", None, 0), Item("k2", None, 0)>>)}
    \cup {FileOf("object", <<Item("k1", Entry("v1", 1), 0)>>),
          FileOf("object", <<Item("k1", Entry("v1", 1), 0),
                             Item("k2", Entry("v2", MaxTime + 1), 0)>>)}

\* _load_cache: self.cache = json.loads(content) with no check of what was
\* parsed; a missing file, or any exception (open, json.loads, len(self.cache)
\* of None or of a number), gives {}.
LoadShape(f) ==
    IF f.kind \in {"list", "string"} THEN f.kind ELSE "mapping"

LoadItems(f) == IF f.kind \in {"object", "list"} THEN f.items ELSE <<>>

LoadCacheMerge(c, f) == c \o SelectSeq(LoadItems(f), LAMBDA it : ~Has(c, it.key))

\* Every branch of _load_cache assigns self.cache anew: "self.cache =
\* json.loads(content)" or "self.cache = {}"; what it held (c) is dropped.
LoadCache(c, f) == LoadItems(f)

\* _save_cache: json.dumps(self.cache) written over the file.
SaveContent(shape, c) ==
    IF shape = "mapping"
    THEN FileOf("object", [i \in 1..Len(c) |-> Item(c[i].key, c[i].value, 0)])
    ELSE FileOf(shape, c)

(* ------------------------------- history ------------------------------- *)

\* The watched set: any one of the sets made so far (the choice is free at
\* each set), so what holds of it holds of every set.
NoEntry == [present |-> FALSE, key |-> "", value |-> None, at |-> 0]
Held(k, p, t) == [present |-> TRUE, key |-> k, value |-> p, at |-> t]

PropagatesUncaught(failed) == failed

\* "except Exception as e: logger.error(...)": get, set, delete and clear log
\* what the backend raised and return.
Propagates(failed) == FALSE

\* The backend call of an operation raises: on a persist cache that _load_cache
\* left as a list or a string, self.cache.get and self.cache[key] = value raise;
\* a string has no clear(). A ttl or lru cache with maxsize < 1 raises on every
\* store.
BackendFails(op) ==
    \/ /\ cache_type = "persist"
       /\ CASE op \in {"get", "set"} -> cache_shape # "mapping"
            [] op = "clear" -> cache_shape = "string"
            [] OTHER -> FALSE
    \/ /\ cache_type \in {"ttl", "lru"}
       /\ op = "set"
       /\ maxsize < 1

NoAttempt == [selector |-> [kind |-> "none", name |-> ""], error |-> "none"]
NoJob ==
    [state |-> "none", key |-> "", value |-> None, seq |-> 0, kept |-> FALSE,
     cancelledAt |-> "none"]
NoVerdict == [ip |-> "", at |-> 0, allowed |-> FALSE]

\* "if key in self.cache: del self.cache[key]" raises on a list that has the key
\* as an element (a list index must be an int); in the string "" no key is found.
DeleteFails(k) ==
    cache_type = "persist" /\ cache_shape = "list" /\ Has(cache, k)

Call(op, k, arg, res, ev) ==
    [op |-> op, key |-> k, arg |-> arg, result |-> res, evicted |-> ev,
     raised |-> Propagates(IF op = "delete" THEN DeleteFails(k) ELSE BackendFails(op))]

Timed == cache_type \in {"ttl", "persist"}

\* The insert scenario of an lru cache: distinct new keys into an empty cache,
\* with the gets that hit, up to the insert that overflows it.
LruRestart ==
    /\ lruIns' = <<>>
    /\ lruReads' = {}
    /\ lruScen' = IF cache_type = "lru" THEN "tracking" ELSE "off"

LruOff == lruIns' = <<>> /\ lruReads' = {} /\ lruScen' = "off"

(* ------------------------------- the state ------------------------------- *)

\* WikipediaClient.__init__, with no call in progress. time.time() is far more
\* than any delay past the epoch that last_request_time = 0 stands for.
InitClient ==
    /\ rate_limit_delay \in 0..MaxDelay
    /\ last_request_time = 0
    /\ wall = MaxDelay
    /\ pc = [c \in Callers |-> "idle"]
    /\ wake = [c \in Callers |-> 0]
    /\ outcome = [c \in Callers |-> "none"]
    /\ dispatches = <<>>
    /\ seen = [c \in Callers |-> 0]
    /\ term = [c \in Callers |-> ""]
    /\ prevOk = ""
    /\ served = 0

InitService ==
    /\ cache_type \in CacheTypes
    /\ maxsize \in 1..MaxSizeBound
    /\ ttl \in 1..MaxTTL
    /\ cache = <<>>
    /\ cache_shape = "mapping"
    /\ file \in IF cache_type = "persist" THEN InitialFiles ELSE {FileOf("absent", <<>>)}
    /\ store = <<>>
    /\ now = 0
    /\ last = Call("construct", "", None, None, {})
    /\ stored = NoEntry
    /\ fresh = FALSE
    /\ lruIns = <<>>
    /\ lruReads = {}
    /\ lruScen = IF cache_type = "lru" THEN "tracking" ELSE "off"

\* No call of a memoized function is in progress or over.
InitMemo ==
    /\ mpc = [t \in Tasks |-> "idle"]
    /\ marg = [t \in Tasks |-> ""]
    /\ mres = [t \in Tasks |-> [fetched |-> None, getFailed |-> FALSE, overlapped |-> FALSE]]
    /\ mlog = <<>>

\* No construction has been tried, no set is in the worker pool, and no
\* request has reached the middleware.
InitIdle ==
    /\ attempt = NoAttempt
    /\ job = [s \in Setters |-> NoJob]
    /\ caller = [s \in Setters |-> "idle"]
    /\ before = <<>>
    /\ requests = [ip \in IPs |-> <<>>]
    /\ accepted = [ip \in IPs |-> [t \in 0..MaxGateTime |-> 0]]
    /\ verdict = NoVerdict

\* The middleware where it is not followed: one request per second.
InitRest ==
    /\ InitIdle
    /\ rate_limit2 = 2
    /\ window_size = 1

\* No cache key is being derived.
InitKey == reqs = <<>> /\ keys = <<>>

Init == InitService /\ InitClient /\ rate_limit_delay = 0 /\ InitMemo /\ InitRest /\ InitKey

\* The clock moves on between calls.
Tick ==
    /\ now < MaxTime
    /\ now' = now + 1
    /\ last' = Call("tick", "", None, None, {})
    /\ UNCHANGED <<cache_type, maxsize, ttl, cache, cache_shape, file, store>>
    /\ UNCHANGED histVars
    /\ UNCHANGED <<rateVars, memoVars, keyVars, ctorVars, poolVars, gateVars>>

\* CachingService.__init__ on the same settings and directory: a new process, or
\* a second instance. The in-memory cache starts empty; the file and the
\* diskcache directory are what they were.
Construct ==
    /\ cache' = <<>>
    /\ cache_shape' = "mapping"
    /\ last' = Call("construct", "", None, None, {})
    /\ stored' = IF cache_type = "persist" THEN stored ELSE NoEntry
    /\ fresh' = FALSE
    /\ LruRestart
    /\ UNCHANGED <<cache_type, maxsize, ttl, file, store, now>>
    /\ UNCHANGED <<rateVars, memoVars, keyVars, ctorVars, poolVars, gateVars>>

\* CachingService.initialize: _load_cache for the persist variant, else nothing.
Initialize ==
    /\ IF cache_type = "persist"
       THEN /\ cache' = LoadCache(cache, file)
            /\ cache_shape' = LoadShape(file)
       ELSE UNCHANGED <<cache, cache_shape>>
    /\ last' = Call("initialize", "", None, None, {})
    /\ fresh' = (cache_type = "persist" /\ last.op = "construct")
    /\ UNCHANGED <<cache_type, maxsize, ttl, file, store, now>>
    /\ UNCHANGED <<stored, lruIns, lruReads, lruScen>>
    /\ UNCHANGED <<rateVars, memoVars, keyVars, ctorVars, poolVars, gateVars>>

\* CachingService._save_cache: returns at once unless the variant is persist.
SaveCache ==
    /\ cache_type = "persist"
    /\ file' = SaveContent(cache_shape, cache)
    /\ last' = Call("save", "", None, None, {})
    /\ UNCHANGED <<cache_type, maxsize, ttl, cache, cache_shape, store, now>>
    /\ UNCHANGED histVars
    /\ UNCHANGED <<rateVars, memoVars, keyVars, ctorVars, poolVars, gateVars>>

\* The in-memory cache after CachingService.set(k, p). On a persist cache that
\* _load_cache left as a list or a string, self.cache[key] = value raises
\* TypeError, which set logs and swallows.
SetCacheDropped(k, p) == cache

SetCache(k, p) ==
    CASE cache_type = "ttl" -> TTLSetItem(cache, k, p, maxsize, now, ttl)
      [] cache_type = "lru" -> LRUSetItem(cache, k, p, maxsize)
      [] cache_type = "persist" ->
            IF cache_shape = "mapping" THEN DictSetItem(cache, k, p) ELSE cache
      [] OTHER -> cache

SetStore(k, p) ==
    IF cache_type = "disk" THEN DiskSet(store, k, p, maxsize) ELSE store

\* The keys a set pushed out for capacity (not the ones that had expired).
SetEvicted(k, p) ==
    CASE cache_type = "ttl" -> KeysOf(TTLExpire(cache, now)) \ KeysOf(SetCache(k, p))
      [] cache_type = "lru" -> KeysOf(cache) \ KeysOf(SetCache(k, p))
      [] cache_type = "disk" -> (KeysOf(store) \cup {k}) \ KeysOf(SetStore(k, p))
      [] OTHER -> {}

\* CachingService.set(key, value), as the service sees it.
ServiceSet(k, p, watch) ==
    LET ev == SetEvicted(k, p)
    IN  /\ cache' = SetCache(k, p)
        /\ store' = SetStore(k, p)
        /\ last' = Call("set", k, p, None, ev)
        /\ watch => Timed
        /\ stored' = IF watch THEN Held(k, p, now)
                     ELSE IF stored.key \in ev \cup {k} THEN NoEntry ELSE stored
        /\ fresh' = FALSE
        /\ IF lruScen = "tracking" /\ ~Has(cache, k)
           THEN /\ lruIns' = Append(lruIns, k)
                /\ lruReads' = lruReads
                /\ lruScen' = IF Len(lruIns) = maxsize THEN "done" ELSE "tracking"
           ELSE LruOff
        /\ UNCHANGED <<cache_type, maxsize, ttl, cache_shape, file, now>>

\* A direct call of set.
Set(k, v, watch) ==
    /\ ServiceSet(k, Plain(v), watch)
    /\ UNCHANGED <<rateVars, memoVars, keyVars, ctorVars, poolVars, gateVars>>

\* get_stats()["size"] of the in-memory variants: len(self.cache), which on a
\* TTLCache leaves out the items that have expired.
StatsSize == IF cache_type = "ttl" THEN Len(TTLExpire(cache, now)) ELSE Len(cache)

\* CachingService.get_stats(): the counters of diskcache are ints, and the
\* cachetools caches and the dict have no hits or misses attribute.
GetStats ==
    IF cache_type = "disk"
    THEN [hits |-> "int", misses |-> "int", size |-> Volume(store),
          max_size |-> maxsize * 1024 * 1024, type |-> cache_type]
    ELSE [size |-> StatsSize, max_size |-> maxsize, type |-> cache_type,
          hits |-> "null", misses |-> "null"]

\* What CachingService.get(key) returns; on a persist cache that is a list or a
\* string, self.cache.get raises AttributeError and get returns None.
GetValue(k) ==
    CASE cache_type = "ttl" -> TTLGetValue(cache, k, now)
      [] cache_type = "lru" -> LRUGetValue(cache, k)
      [] cache_type = "persist" ->
            IF cache_shape = "mapping" THEN Lookup(cache, k) ELSE None
      [] OTHER -> Lookup(store, k)

\* CachingService.get(key), as the service sees it.
ServiceGet(k) ==
    /\ cache' = CASE cache_type = "ttl" -> TTLGetCache(cache, k, now)
                  [] cache_type = "lru" -> LRUGetCache(cache, k)
                  [] OTHER -> cache
    /\ store' = IF cache_type = "disk" THEN DiskGetStore(store, k) ELSE store
    /\ last' = Call("get", k, None, GetValue(k), {})
    /\ IF lruScen = "tracking"
       THEN /\ lruReads' = IF Has(cache, k)
                           THEN lruReads \cup {<<k, Len(lruIns)>>} ELSE lruReads
            /\ UNCHANGED <<lruIns, lruScen>>
       ELSE LruOff
    /\ UNCHANGED <<cache_type, maxsize, ttl, cache_shape, file, now>>
    /\ UNCHANGED <<stored, fresh>>

\* A direct call of get.
Get(k) ==
    /\ ServiceGet(k)
    /\ UNCHANGED <<rateVars, memoVars, keyVars, ctorVars, poolVars, gateVars>>

DeleteCacheAll(k) == <<>>

\* The in-memory cache after CachingService.delete(key): "if key in self.cache:
\* del self.cache[key]"; on a list or a string nothing is deleted.
DeleteCache(k) ==
    CASE cache_type = "ttl" ->
            IF TTLContains(cache, k, now) THEN Remove(cache, k) ELSE cache
      [] cache_type = "lru" -> Remove(cache, k)
      [] cache_type = "persist" ->
            IF cache_shape = "mapping" THEN Remove(cache, k) ELSE cache
      [] OTHER -> cache

\* Cache.delete of diskcache.
DeleteStore(k) == IF cache_type = "disk" THEN Remove(store, k) ELSE store

\* CachingService.delete(key); the record keeps the key when it was held.
Delete(k) ==
    /\ cache' = DeleteCache(k)
    /\ store' = DeleteStore(k)
    /\ last' = Call("delete", k, None, None, IF GetValue(k) # None THEN {k} ELSE {})
    /\ stored' = IF stored.key = k THEN NoEntry ELSE stored
    /\ fresh' = FALSE
    /\ LruOff
    /\ UNCHANGED <<cache_type, maxsize, ttl, cache_shape, file, now>>
    /\ UNCHANGED <<rateVars, memoVars, keyVars, ctorVars, poolVars, gateVars>>

\* CachingService.clear(): a list has clear() as a dict has; a str has not, and
\* the AttributeError is logged and swallowed.
Clear ==
    /\ cache' = <<>>
    /\ store' = <<>>
    /\ last' = Call("clear", "", None, None, {})
    /\ stored' = NoEntry
    /\ fresh' = FALSE
    /\ LruRestart
    /\ UNCHANGED <<cache_type, maxsize, ttl, cache_shape, file, now>>
    /\ UNCHANGED <<rateVars, memoVars, keyVars, ctorVars, poolVars, gateVars>>

\* The calls every variant serves, on keys drawn from K.
CacheCalls(K) ==
    \/ Tick
    \/ Construct
    \/ Initialize
    \/ \E k \in K, v \in Values, watch \in BOOLEAN : Set(k, v, watch)
    \/ \E k \in K : Get(k)
    \/ \E k \in K : Delete(k)
    \/ Clear

Next == CacheCalls(Keys)

NextPersist == CacheCalls(PersistKeys) \/ SaveCache

\* One specification per variant: a service keeps the variant it was built with.
InitTTL == Init /\ cache_type = "ttl"
InitLRU == Init /\ cache_type = "lru"
InitDisk == Init /\ cache_type = "disk"
InitPersist == Init /\ cache_type = "persist"

\* Every variant, without the save that nothing calls.
Spec == Init /\ [][Next]_vars

SpecTTL == InitTTL /\ [][Next]_vars
SpecLRU == InitLRU /\ [][Next]_vars
SpecDisk == InitDisk /\ [][Next]_vars
SpecPersist == InitPersist /\ [][NextPersist]_vars

(* ----------------------- CachingService.__init__ ----------------------- *)

\* What a caller can pass as cache_type: a member of CacheType, a plain string
\* (what os.getenv gives the routes), or something else, here None.
Selectors ==
    {[kind |-> "enum", name |-> x] : x \in CacheTypes}
    \cup {[kind |-> "str", name |-> x] : x \in CacheTypes \cup {"redis"}}
    \cup {[kind |-> "none", name |-> ""]}

\* What a caller can pass as ttl and as maxsize: any int.
TTLSettings == (0 - 1)..MaxTTL
SizeSettings == (0 - 1)..MaxSizeBound

RecognisedAny(sel) == TRUE

\* The chain "if cache_type == CacheType.TTL: ... elif ...": CacheType is a str
\* enum, so a plain string that spells a member compares equal to it.
Recognised(sel) == sel.kind \in {"enum", "str"} /\ sel.name \in CacheTypes

\* What __init__ raises: ValueError from the else branch; AttributeError from
\* cache_type.value in the last line when cache_type is a plain string; nothing
\* for a ttl or a maxsize of any sign.
ConstructError(sel, t, n) ==
    IF ~Recognised(sel) THEN "ValueError"
    ELSE IF sel.kind # "enum" THEN "AttributeError"
    ELSE ""

\* CachingService(cache_type=sel, ttl=t, maxsize=n). When __init__ raises there
\* is no new object and the service in use is the one there was. A behaviour
\* follows one such call, the one made at startup.
ConstructWith(sel, t, n) ==
    LET err == ConstructError(sel, t, n)
    IN  /\ attempt = NoAttempt
        /\ attempt' = [selector |-> sel, error |-> err]
        /\ IF err = ""
           THEN /\ cache_type' = sel.name
                /\ ttl' = t
                /\ maxsize' = n
                /\ cache' = <<>>
                /\ cache_shape' = "mapping"
                /\ last' = Call("construct", "", None, None, {})
                /\ stored' = NoEntry
                /\ fresh' = FALSE
                /\ LruOff
                /\ UNCHANGED <<file, store, now>>
           ELSE UNCHANGED <<cacheVars, histVars>>
        /\ UNCHANGED <<rateVars, memoVars, keyVars, poolVars, gateVars>>

\* Services are constructed and used, one key and one value being enough.
NextConstruct ==
    \/ \E sel \in Selectors, t \in TTLSettings, n \in SizeSettings : ConstructWith(sel, t, n)
    \/ \E watch \in BOOLEAN : Set("k1", "v1", watch)
    \/ Get("k1")
    \/ Tick

SpecConstruct == Init /\ [][NextConstruct]_vars

(* ------------------ set under concurrency and cancellation ------------------ *)

CancelJobAlways(st) == "dropped"

\* What the cancellation of the awaiting task does to the job given to
\* loop.run_in_executor: the cancel reaches the pool's future, which gives up a
\* job that no worker has started and leaves a started one to run to its end.
CancelJob(st) == IF st = "queued" THEN "dropped" ELSE st

AllJobsNone == \A s \in Setters : job[s].state = "none"

\* The place of a job that ends now among the jobs that have ended.
NextSeq == Cardinality({s \in Setters : job[s].state = "done"}) + 1

\* The job of set(k, p) as it ends: whether the backend took the write and the
\* write left the key in place.
Ended(j, k, p) ==
    [j EXCEPT !.state = "done", !.key = k, !.value = p, !.seq = NextSeq,
              !.kept = ~BackendFails("set") /\ k \notin SetEvicted(k, p)]

\* What get gives for each key, taken when the first of the sets begins.
Snapshot == IF AllJobsNone THEN [k \in Keys |-> GetValue(k)] ELSE before

\* A task calls set(k, v). The disk branch hands self.cache.set to the worker
\* pool and awaits it; the other branches store at once, with no await at which
\* another task could run or a cancel could arrive.
SetBegin(s, k, v) ==
    /\ caller[s] = "idle"
    /\ job[s].state = "none"
    /\ before' = Snapshot
    /\ IF cache_type = "disk"
       THEN /\ job' = [job EXCEPT ![s] = [NoJob EXCEPT !.state = "queued", !.key = k,
                                                        !.value = Plain(v)]]
            /\ caller' = [caller EXCEPT ![s] = "suspended"]
            /\ UNCHANGED <<cacheVars, histVars>>
       ELSE /\ ServiceSet(k, Plain(v), FALSE)
            /\ job' = [job EXCEPT ![s] = Ended(NoJob, k, Plain(v))]
            /\ caller' = [caller EXCEPT ![s] = "returned"]
    /\ UNCHANGED <<rateVars, memoVars, keyVars, ctorVars, gateVars>>

\* A worker thread of the pool takes the job.
WorkerStart(s) ==
    /\ job[s].state = "queued"
    /\ job' = [job EXCEPT ![s].state = "running"]
    /\ UNCHANGED <<caller, before>>
    /\ UNCHANGED <<cacheVars, histVars, rateVars, memoVars, keyVars, ctorVars, gateVars>>

\* self.cache.set(key, value) ends on its worker thread, and a caller that
\* still awaits it returns from set.
WorkerFinish(s) ==
    /\ job[s].state = "running"
    /\ ServiceSet(job[s].key, job[s].value, FALSE)
    /\ job' = [job EXCEPT ![s] = Ended(job[s], job[s].key, job[s].value)]
    /\ caller' = [caller EXCEPT ![s] = IF caller[s] = "suspended" THEN "returned"
                                       ELSE caller[s]]
    /\ UNCHANGED before
    /\ UNCHANGED <<rateVars, memoVars, keyVars, ctorVars, gateVars>>

\* The task that awaits the job is cancelled: CancelledError is no Exception,
\* so "except Exception" of set lets it through to the caller.
CancelCaller(s) ==
    /\ caller[s] = "suspended"
    /\ caller' = [caller EXCEPT ![s] = "cancelled"]
    /\ job' = [job EXCEPT ![s].state = CancelJob(job[s].state),
                          ![s].cancelledAt = job[s].state]
    /\ UNCHANGED before
    /\ UNCHANGED <<cacheVars, histVars, rateVars, memoVars, keyVars, ctorVars, gateVars>>

\* The service is initialized before it is used.
PoolInitialize ==
    /\ last.op = "construct"
    /\ AllJobsNone
    /\ Initialize

\* Entries written before the sets that are followed, small ones.
Prefill(k) ==
    /\ AllJobsNone
    /\ Set(k, "v1", FALSE)

NextPool ==
    \/ PoolInitialize
    \/ \E k \in Keys : Prefill(k)
    \/ \E s \in Setters, k \in PersistKeys, v \in Values : SetBegin(s, k, v)
    \/ \E s \in Setters : WorkerStart(s)
    \/ \E s \in Setters : WorkerFinish(s)
    \/ \E s \in Setters : CancelCaller(s)
    \/ \E k \in Keys : Get(k)

SpecPool == Init /\ [][NextPool]_vars

(* --------------------------- RateLimitMiddleware --------------------------- *)

\* "ip_times = [t for t in ip_times if t > cutoff]", cutoff = current_time -
\* window_size.
Pruned(ip_times, current_time, w) ==
    SelectSeq(ip_times, LAMBDA t : t > current_time - w)

\* "if len(ip_times) >= self.rate_limit: return False", rate_limit a float
\* that is limit2 / 2.
OverLimit(ip_times, limit2) == 2 * Len(ip_times) >= limit2

\* time.time() moves on between two requests.
GateTick ==
    /\ wall < MaxGateTime
    /\ wall' = wall + 1
    /\ UNCHANGED <<rate_limit_delay, last_request_time, pc, wake, outcome, dispatches>>
    /\ UNCHANGED <<seen, term, prevOk, served>>
    /\ UNCHANGED <<cacheVars, histVars, memoVars, keyVars, ctorVars, poolVars, gateVars>>

\* RateLimitMiddleware.dispatch for a request of client ip: _check_rate_limit
\* prunes and either refuses, leaving self.requests as it was (dispatch then
\* raises RateLimitError), or appends the time and stores the list.
GateDispatch(ip) ==
    LET ip_times == Pruned(requests[ip], wall, window_size)
        allowed == ~OverLimit(ip_times, rate_limit2)
    IN  /\ requests' = IF allowed
                       THEN [requests EXCEPT ![ip] = Append(ip_times, wall)]
                       ELSE requests
        /\ accepted' = IF allowed
                       THEN [accepted EXCEPT ![ip][wall] = @ + 1]
                       ELSE accepted
        /\ verdict' = [ip |-> ip, at |-> wall, allowed |-> allowed]
        /\ UNCHANGED <<rate_limit2, window_size>>
        /\ UNCHANGED <<cacheVars, histVars, rateVars, memoVars, keyVars, ctorVars, poolVars>>

NextGate ==
    \/ GateTick
    \/ \E ip \in IPs : GateDispatch(ip)

\* A middleware with any limit in steps of 0.5 and any window, beside a client
\* and a service that are left as constructed.
InitGate ==
    /\ InitService /\ cache_type = "ttl" /\ maxsize = 1 /\ ttl = 1
    /\ InitClient /\ rate_limit_delay = 0
    /\ InitMemo
    /\ InitKey
    /\ InitIdle
    /\ rate_limit2 \in 1..MaxLimit2
    /\ window_size \in 1..MaxWindow

SpecGate == InitGate /\ [][NextGate]_vars

(* ------------------------ cached: the cache key ------------------------ *)

\* A call of a memoized function: the prefix given to cached(), the function's
\* __name__, the positional arguments as their repr, and the keyword arguments
\* as <<name, repr>> pairs in the order the call gave them.
Prefixes == {"search", "raw_article"}
FuncNames == {"search", "get_article"}
ArgReprs == {"'x'", "'y'"}
KwNames == {"results", "auto_suggest"}
KwReprs == {"1", "2"}

KwPairs == {<<n, r>> : n \in KwNames, r \in KwReprs}

KwSeqs ==
    {<<>>}
    \cup {<<p>> : p \in KwPairs}
    \cup {s \in KwPairs \X KwPairs : s[1][1] # s[2][1]}

Requests ==
    [prefix : Prefixes, func : FuncNames, args : {<<a>> : a \in ArgReprs}, kwargs : KwSeqs]

\* str(args) of a tuple: "(" repr "," ... ")".
RECURSIVE StrArgs(_)
StrArgs(args) ==
    IF args = <<>> THEN <<")">>
    ELSE <<args[1], ",">> \o StrArgs(Tail(args))

\* str(kwargs) of a dict: "{" 'name' ":" repr "," ... "}", in insertion order,
\* which is the order of the call.
RECURSIVE StrKwargs(_)
StrKwargs(kw) ==
    IF kw = <<>> THEN <<"}">>
    ELSE <<kw[1][1], ":", kw[1][2], ",">> \o StrKwargs(Tail(kw))

\* cache_key = f"{key_prefix}:{func.__name__}:{str(args)}:{str(kwargs)}", as the
\* pieces it is made of.
CacheKey(r) ==
    <<r.prefix, ":", r.func, ":", "(">> \o StrArgs(r.args)
        \o <<":", "{">> \o StrKwargs(r.kwargs)

\* The mapping a call's keyword arguments are.
KwMapping(kw) == {kw[i] : i \in 1..Len(kw)}

\* Two calls are one logical request: the same prefix, function, positional
\* arguments and keyword mapping.
SameRequest(a, b) ==
    /\ a.prefix = b.prefix
    /\ a.func = b.func
    /\ a.args = b.args
    /\ KwMapping(a.kwargs) = KwMapping(b.kwargs)

\* The wrapper derives the key of each of the two calls.
DeriveKeys ==
    /\ reqs # <<>>
    /\ keys = <<>>
    /\ keys' = <<CacheKey(reqs[1]), CacheKey(reqs[2])>>
    /\ UNCHANGED reqs
    /\ UNCHANGED <<cacheVars, histVars, rateVars, memoVars, ctorVars, poolVars, gateVars>>

NextKey == DeriveKeys

InitKeys ==
    /\ InitService /\ cache_type = "ttl" /\ maxsize = 1 /\ ttl = 1
    /\ InitClient /\ rate_limit_delay = 0
    /\ InitMemo /\ InitRest
    /\ reqs \in {<<a, b>> : a \in Requests, b \in Requests}
    /\ keys = <<>>

SpecKey == InitKeys /\ [][NextKey]_vars

(* --------------------------- cached: the wrapper --------------------------- *)

\* The two memoized calls of the routes: search under the prefix "search" and
\* get_article under "raw_article".
RequestOf(a) ==
    IF a = "a1"
    THEN [prefix |-> "search", func |-> "search", args |-> <<"'x'">>,
          kwargs |-> << <<"results", "1">> >>]
    ELSE [prefix |-> "raw_article", func |-> "get_article", args |-> <<"'y'">>,
          kwargs |-> << <<"auto_suggest", "1">> >>]

\* The key a call is cached under, named as the service's keys are.
StoreKey(a) ==
    IF CacheKey(RequestOf(a)) = CacheKey(RequestOf("a1")) THEN "k1" ELSE "k2"

\* What the wrapped function can return, and what the wikipedia library can raise.
FuncResults == {Plain(v) : v \in Values} \cup {None}
UpstreamErrors == {"PageError", "ConnectionError"}

\* What search and get_article raise for what the library raised: search wraps
\* everything in a new Exception; get_article turns PageError into
\* ArticleNotFoundError and wraps the rest in a new Exception.
ClientRaises(a, e) ==
    IF RequestOf(a).func = "get_article" /\ e = "PageError"
    THEN "ArticleNotFoundError"
    ELSE "Exception"

IsHitNever(p) == FALSE

IsHitAlways(p) == TRUE

\* "if cached_result is not None"
IsHit(p) == p # None

NoFetch == [fetched |-> None, getFailed |-> FALSE, overlapped |-> FALSE]

\* A call of the wrapper that is over.
Done(a, invoked, fetched, result, raised, original, getFailed, setFailed, wrote, overlapped) ==
    [arg |-> a, invoked |-> invoked, fetched |-> fetched, result |-> result,
     raised |-> raised, original |-> original,
     getFailed |-> getFailed, setFailed |-> setFailed, wrote |-> wrote,
     overlapped |-> overlapped]

\* The calls with the arguments of t's that have made their get, found
\* nothing, and have not reached the end of their set: t's get comes before
\* their set as theirs came before t's.
Racing(t) ==
    {o \in Tasks \ {t} : mpc[o] \in {"call", "set"} /\ marg[o] = marg[t]}

Log(rec) == IF Len(mlog) < 2 THEN Append(mlog, rec) ELSE <<mlog[2], rec>>

\* wrapper(*args, **kwargs) is called; the calls are made one after another.
MemoBegin(t, a) ==
    /\ \A o \in Tasks : mpc[o] = "idle"
    /\ mpc' = [mpc EXCEPT ![t] = "get"]
    /\ marg' = [marg EXCEPT ![t] = a]
    /\ UNCHANGED <<mres, mlog>>
    /\ UNCHANGED <<cacheVars, histVars, rateVars, keyVars, ctorVars, poolVars, gateVars>>

\* cached_result = await cache_service.get(cache_key), and the return of it
\* when it is not None.
MemoGet(t) ==
    /\ mpc[t] = "get"
    /\ LET k == StoreKey(marg[t])
           hit == GetValue(k)
           failed == BackendFails("get")
       IN  /\ ServiceGet(k)
           /\ IF Propagates(failed)
              THEN /\ mpc' = [mpc EXCEPT ![t] = "idle"]
                   /\ marg' = [marg EXCEPT ![t] = ""]
                   /\ mres' = mres
                   /\ mlog' = Log(Done(marg[t], FALSE, None, None, "CacheError", "",
                                       failed, FALSE, FALSE, FALSE))
              ELSE IF IsHit(hit)
              THEN /\ mpc' = [mpc EXCEPT ![t] = "idle"]
                   /\ marg' = [marg EXCEPT ![t] = ""]
                   /\ mres' = mres
                   /\ mlog' = Log(Done(marg[t], FALSE, None, hit, "", "",
                                       failed, FALSE, FALSE, FALSE))
              ELSE /\ mpc' = [mpc EXCEPT ![t] = "call"]
                   /\ mres' = [o \in Tasks |->
                                  IF o = t
                                  THEN [fetched |-> None, getFailed |-> failed,
                                        overlapped |-> Racing(t) # {}]
                                  ELSE IF o \in Racing(t)
                                  THEN [mres[o] EXCEPT !.overlapped = TRUE]
                                  ELSE mres[o]]
                   /\ UNCHANGED <<marg, mlog>>
    /\ UNCHANGED <<rateVars, keyVars, ctorVars, poolVars, gateVars>>

\* result = await func(*args, **kwargs) returns.
MemoCallReturns(t, p) ==
    /\ mpc[t] = "call"
    /\ mpc' = [mpc EXCEPT ![t] = "set"]
    /\ mres' = [mres EXCEPT ![t].fetched = p]
    /\ UNCHANGED <<marg, mlog>>
    /\ UNCHANGED <<cacheVars, histVars, rateVars, keyVars, ctorVars, poolVars, gateVars>>

\* func raises: the wrapper has no handler, and set is not reached.
MemoCallRaises(t, e) ==
    /\ mpc[t] = "call"
    /\ mpc' = [mpc EXCEPT ![t] = "idle"]
    /\ marg' = [marg EXCEPT ![t] = ""]
    /\ mres' = [mres EXCEPT ![t] = NoFetch]
    /\ mlog' = Log(Done(marg[t], TRUE, None, None, ClientRaises(marg[t], e), e,
                        mres[t].getFailed, FALSE, FALSE, mres[t].overlapped))
    /\ UNCHANGED <<cacheVars, histVars, rateVars, keyVars, ctorVars, poolVars, gateVars>>

\* await cache_service.set(cache_key, result); return result
MemoSet(t) ==
    /\ mpc[t] = "set"
    /\ LET failed == BackendFails("set")
           p == mres[t].fetched
       IN  /\ ServiceSet(StoreKey(marg[t]), p, FALSE)
           /\ mlog' = Log(IF Propagates(failed)
                          THEN Done(marg[t], TRUE, p, None, "CacheError", "",
                                    mres[t].getFailed, failed, TRUE, mres[t].overlapped)
                          ELSE Done(marg[t], TRUE, p, p, "", "",
                                    mres[t].getFailed, failed, TRUE, mres[t].overlapped))
    /\ mpc' = [mpc EXCEPT ![t] = "idle"]
    /\ marg' = [marg EXCEPT ![t] = ""]
    /\ mres' = [mres EXCEPT ![t] = NoFetch]
    /\ UNCHANGED <<rateVars, keyVars, ctorVars, poolVars, gateVars>>

\* The service is initialized before the first call.
InitializeFirst ==
    /\ mlog = <<>>
    /\ \A o \in Tasks : mpc[o] = "idle"
    /\ Initialize

NextMemo ==
    \/ InitializeFirst
    \/ \E t \in Tasks, a \in Args : MemoBegin(t, a)
    \/ \E t \in Tasks : MemoGet(t)
    \/ \E t \in Tasks, p \in FuncResults : MemoCallReturns(t, p)
    \/ \E t \in Tasks, e \in UpstreamErrors : MemoCallRaises(t, e)
    \/ \E t \in Tasks : MemoSet(t)

\* The wrapper over a persist service, the client idle.
InitMemoized ==
    /\ InitService /\ cache_type = "persist" /\ maxsize = 1 /\ ttl = 1
    /\ InitClient /\ rate_limit_delay = 0
    /\ InitMemo /\ InitRest
    /\ InitKey

SpecMemo == InitMemoized /\ [][NextMemo]_vars

\* wrapper(*args, **kwargs) is called while other calls of it are in progress:
\* every await of the wrapper lets another task run, and the wrapper takes no
\* lock and keeps no record of the calls in flight. The calls followed are
\* those begun before any call is over.
MemoBeginOverlap(t, a) ==
    /\ mpc[t] = "idle"
    /\ mlog = <<>>
    /\ mpc' = [mpc EXCEPT ![t] = "get"]
    /\ marg' = [marg EXCEPT ![t] = a]
    /\ UNCHANGED <<mres, mlog>>
    /\ UNCHANGED <<cacheVars, histVars, rateVars, keyVars, ctorVars, poolVars, gateVars>>

NextMemoOverlap ==
    \/ InitializeFirst
    \/ \E t \in Tasks, a \in Args : MemoBeginOverlap(t, a)
    \/ \E t \in Tasks : MemoGet(t)
    \/ \E t \in Tasks, p \in FuncResults : MemoCallReturns(t, p)
    \/ \E t \in Tasks, e \in UpstreamErrors : MemoCallRaises(t, e)
    \/ \E t \in Tasks : MemoSet(t)

SpecMemoOverlap == InitMemoized /\ [][NextMemoOverlap]_vars

(* --------------------- WikipediaClient._respect_rate_limit --------------------- *)

NeedsWaitNever(since, d) == FALSE

\* "if time_since_last_request < self.rate_limit_delay"
NeedsWait(since, d) == since < d

\* "time.sleep(self.rate_limit_delay - time_since_last_request)"
SleepFor(since, d) == d - since

\* Nothing is inside search, get_article or get_summary. The methods are
\* synchronous: time.sleep and the upstream call keep the thread they run on,
\* so on an event loop no other task runs until the method is over.
LoopFree == \A o \in Callers : pc[o] = "idle"

\* time.time() moves on.
TickWall ==
    /\ wall < MaxWall
    /\ wall' = wall + 1
    /\ UNCHANGED <<rate_limit_delay, last_request_time, pc, wake, outcome, dispatches>>
    /\ UNCHANGED <<seen, term, prevOk, served>>
    /\ UNCHANGED <<cacheVars, histVars, memoVars, keyVars, ctorVars, poolVars, gateVars>>

\* The wikipedia_search tool is called with a term and goes straight to
\* wikipedia_client.search, on the thread that serves the tools.
BeginCall(c, t) ==
    /\ LoopFree
    /\ pc' = [pc EXCEPT ![c] = "check"]
    /\ term' = [term EXCEPT ![c] = t]
    /\ outcome' = [outcome EXCEPT ![c] = "none"]
    /\ UNCHANGED <<rate_limit_delay, last_request_time, wall, wake, dispatches>>
    /\ UNCHANGED <<seen, prevOk, served>>
    /\ UNCHANGED <<cacheVars, histVars, memoVars, keyVars, ctorVars, poolVars, gateVars>>

\* The same call made from a thread of its own, whatever the other callers are
\* doing: _respect_rate_limit takes no lock.
BeginThread(c, t) ==
    /\ pc[c] = "idle"
    /\ pc' = [pc EXCEPT ![c] = "check"]
    /\ term' = [term EXCEPT ![c] = t]
    /\ outcome' = [outcome EXCEPT ![c] = "none"]
    /\ UNCHANGED <<rate_limit_delay, last_request_time, wall, wake, dispatches>>
    /\ UNCHANGED <<seen, prevOk, served>>
    /\ UNCHANGED <<cacheVars, histVars, memoVars, keyVars, ctorVars, poolVars, gateVars>>

\* current_time = time.time(); the elapsed time; the branch on it, and the start
\* of time.sleep when the delay is not over.
CheckElapsed(c) ==
    /\ pc[c] = "check"
    /\ seen' = [seen EXCEPT ![c] = last_request_time]
    /\ LET since == wall - last_request_time
       IN  IF NeedsWait(since, rate_limit_delay)
           THEN /\ pc' = [pc EXCEPT ![c] = "sleep"]
                /\ wake' = [wake EXCEPT ![c] = wall + SleepFor(since, rate_limit_delay)]
           ELSE /\ pc' = [pc EXCEPT ![c] = "stamp"]
                /\ wake' = wake
    /\ UNCHANGED <<rate_limit_delay, last_request_time, wall, outcome, dispatches>>
    /\ UNCHANGED <<term, prevOk, served>>
    /\ UNCHANGED <<cacheVars, histVars, memoVars, keyVars, ctorVars, poolVars, gateVars>>

\* time.sleep returns, no sooner than asked.
WakeUp(c) ==
    /\ pc[c] = "sleep"
    /\ wall >= wake[c]
    /\ pc' = [pc EXCEPT ![c] = "stamp"]
    /\ UNCHANGED <<rate_limit_delay, last_request_time, wall, wake, outcome, dispatches>>
    /\ UNCHANGED <<seen, term, prevOk, served>>
    /\ UNCHANGED <<cacheVars, histVars, memoVars, keyVars, ctorVars, poolVars, gateVars>>

StampKeep(prev, w) == prev

\* "self.last_request_time = time.time()", the last statement of
\* _respect_rate_limit; no except branch of the client writes the field again.
Stamp(prev, w) == w

\* self.last_request_time = time.time(), and with it the dispatch of the
\* upstream call that the next statement makes.
Dispatch(c) ==
    /\ pc[c] = "stamp"
    /\ last_request_time' = Stamp(last_request_time, wall)
    /\ dispatches' = IF Len(dispatches) < 2 THEN Append(dispatches, wall)
                     ELSE <<dispatches[2], wall>>
    /\ pc' = [pc EXCEPT ![c] = "upstream"]
    /\ UNCHANGED <<rate_limit_delay, wall, wake, outcome>>
    /\ UNCHANGED <<seen, term, prevOk, served>>
    /\ UNCHANGED <<cacheVars, histVars, memoVars, keyVars, ctorVars, poolVars, gateVars>>

\* self.wikipedia.search / page / summary returns or raises, and the tool
\* answers its request.
Return(c, ok) ==
    /\ pc[c] = "upstream"
    /\ outcome' = [outcome EXCEPT ![c] = IF ok THEN "returned" ELSE "raised"]
    /\ pc' = [pc EXCEPT ![c] = "idle"]
    /\ prevOk' = IF ok THEN term[c] ELSE ""
    /\ term' = [term EXCEPT ![c] = ""]
    /\ seen' = [seen EXCEPT ![c] = 0]
    /\ UNCHANGED <<rate_limit_delay, last_request_time, wall, wake, dispatches>>
    /\ UNCHANGED served
    /\ UNCHANGED <<cacheVars, histVars, memoVars, keyVars, ctorVars, poolVars, gateVars>>

\* Another task of the event loop that serves the callers runs to its end: a
\* request that needs nothing from upstream. The loop runs it when the task it
\* was running has finished or awaits.
ServeOther ==
    /\ LoopFree
    /\ served < MaxServed
    /\ served' = served + 1
    /\ UNCHANGED <<rate_limit_delay, last_request_time, wall, pc, wake, outcome, dispatches>>
    /\ UNCHANGED <<seen, term, prevOk>>
    /\ UNCHANGED <<cacheVars, histVars, memoVars, keyVars, ctorVars, poolVars, gateVars>>

\* The callers served one at a time by one event loop.
NextRate ==
    \/ TickWall
    \/ \E c \in Callers, t \in Terms : BeginCall(c, t)
    \/ \E c \in Callers : CheckElapsed(c)
    \/ \E c \in Callers : WakeUp(c)
    \/ \E c \in Callers : Dispatch(c)
    \/ \E c \in Callers, ok \in BOOLEAN : Return(c, ok)
    \/ ServeOther

\* The callers each on a thread of its own.
NextThreads ==
    \/ TickWall
    \/ \E c \in Callers, t \in Terms : BeginThread(c, t)
    \/ \E c \in Callers : CheckElapsed(c)
    \/ \E c \in Callers : WakeUp(c)
    \/ \E c \in Callers : Dispatch(c)
    \/ \E c \in Callers, ok \in BOOLEAN : Return(c, ok)

\* The client alone, beside a service that is left as constructed.
InitRate ==
    /\ InitService /\ cache_type = "ttl" /\ maxsize = 1 /\ ttl = 1
    /\ InitClient
    /\ InitMemo /\ InitRest
    /\ InitKey

SpecRate == InitRate /\ [][NextRate]_vars

SpecThreads == InitRate /\ [][NextThreads]_vars

(* ------------------------------- the claims ------------------------------- *)

Range(q) == {q[i] : i \in 1..Len(q)}

\* C1: for every variant, set(k, v) followed at once by get(k), with no expiry
\* (the clock has not moved) and no eviction of k by the set, returns v.
C1_SetThenGet ==
    [][(/\ last.op = "set"
        /\ last.key \notin last.evicted
        /\ last'.op = "get"
        /\ last'.key = last.key) => last'.result = last.arg]_vars

\* C2: on a ttl cache, a get of a key set at time s, not written, deleted or
\* evicted since, returns the value while now < s + ttl and None from s + ttl on.
C2_TTLExpiry ==
    (/\ cache_type = "ttl"
     /\ last.op = "get"
     /\ stored.present
     /\ stored.key = last.key)
        => last.result = (IF now < stored.at + ttl THEN stored.value ELSE None)

\* A get at exactly s + ttl that returned None.
C2_Witness ==
    /\ cache_type = "ttl"
    /\ last.op = "get"
    /\ stored.present
    /\ stored.key = last.key
    /\ now = stored.at + ttl
    /\ last.result = None

\* A get just before s + ttl, after the clock has moved, that returned the value.
C2_WitnessLive ==
    /\ cache_type = "ttl"
    /\ last.op = "get"
    /\ stored.present
    /\ stored.key = last.key
    /\ stored.at < now
    /\ now < stored.at + ttl
    /\ last.result = stored.value

\* The keys of the insert scenario that the overflowing insert left out.
LruDropped == Range(lruIns) \ KeysOf(cache)

\* The first-inserted key other than k.
FirstOther(k) == IF lruIns[1] = k THEN lruIns[2] ELSE lruIns[1]

\* C3 as stated: after maxsize + 1 distinct inserts into an empty lru cache,
\* with no get the first-inserted key alone is gone; and every key that a get
\* read before the last insert is still held.
C3_AnyReadSurvives ==
    lruScen = "done" =>
        /\ lruReads = {} => LruDropped = {lruIns[1]}
        /\ \A r \in lruReads : Has(cache, r[1])

\* C3 as amended: with no get the first-inserted key alone is gone; with
\* maxsize >= 2 and the gets all of one key k, all made after insert number
\* maxsize, k is held and the first-inserted key other than k alone is gone.
C3_LRUEviction ==
    lruScen = "done" =>
        /\ lruReads = {} => LruDropped = {lruIns[1]}
        /\ \A k \in Keys :
              (maxsize >= 2 /\ lruReads = {<<k, maxsize>>}) =>
                  /\ Has(cache, k)
                  /\ LruDropped = {FirstOther(k)}
        /\ Len(cache) = maxsize

\* The first-inserted key was read when the cache was full, and survived.
C3_Witness ==
    /\ lruScen = "done"
    /\ maxsize >= 2
    /\ lruReads = {<<lruIns[1], maxsize>>}
    /\ Has(cache, lruIns[1])
    /\ LruDropped = {lruIns[2]}

\* C4: the backend never holds more than maxsize entries (bytes, for disk).
C4_SizeBounded ==
    /\ cache_type # "disk" => Len(cache) <= maxsize
    /\ cache_type = "disk" => Volume(store) <= SizeLimit(maxsize)

\* C5: on a persist service just constructed and initialized on the directory,
\* get(k) returns the value an earlier set(k, v) wrote, not deleted or expired.
C5_Durable ==
    (/\ cache_type = "persist"
     /\ fresh
     /\ file.kind \in {"absent", "object"}
     /\ last.op = "get"
     /\ stored.present
     /\ stored.key = last.key
     /\ now < stored.at + ttl) => last.result = stored.value

\* C6: when a set, delete or clear of a persist service returns, cache.json
\* holds exactly the in-memory mapping.
C6_FileMirrorsCache ==
    (cache_type = "persist" /\ last.op \in {"set", "delete", "clear"})
        => file = SaveContent(cache_shape, cache)

\* C7: on a persist service, a get of a key at or after stored_at + ttl returns
\* None and leaves the key neither in memory nor in the file.
C7_PersistExpiry ==
    (/\ cache_type = "persist"
     /\ last.op = "get"
     /\ stored.present
     /\ stored.key = last.key
     /\ now >= stored.at + ttl)
        => /\ last.result = None
           /\ ~Has(cache, last.key)
           /\ ~Has(file.items, last.key)

\* An entry of the file format whose expiry has passed.
Expired(it) == it.value.kind = "entry" /\ it.value.expiry <= now

\* C8: after the load of a persist service, no expired entry is left in memory
\* or in the file.
C8_VacuumOnLoad ==
    (cache_type = "persist" /\ last.op = "initialize")
        => /\ \A i \in 1..Len(cache) : ~Expired(cache[i])
           /\ \A i \in 1..Len(file.items) : ~Expired(file.items[i])

\* C9: after the load of a persist service whose file is absent, unreadable or
\* holds no JSON object, the in-memory cache is an empty mapping.
C9_BadFileGivesEmptyMapping ==
    (cache_type = "persist" /\ last.op = "initialize" /\ file.kind # "object")
        => cache_shape = "mapping" /\ cache = <<>>

\* C10: of two consecutive calls through one client, the second is dispatched
\* no earlier than rate_limit_delay after the first.
C10_Spacing ==
    Len(dispatches) = 2 => dispatches[2] - dispatches[1] >= rate_limit_delay

\* The second call came within the delay, slept, and was dispatched exactly
\* rate_limit_delay after the first.
C10_Witness ==
    /\ Len(dispatches) = 2
    /\ rate_limit_delay > 0
    /\ dispatches[2] = dispatches[1] + rate_limit_delay
    /\ \E c \in Callers : pc[c] = "upstream" /\ wake[c] = dispatches[2]

\* C11: two callers on threads of their own that read the same
\* last_request_time never both dispatch less than rate_limit_delay apart.
C11_ExclusiveSection ==
    \A a \in Callers, b \in Callers :
        (/\ a # b
         /\ pc[a] = "upstream"
         /\ pc[b] = "upstream"
         /\ seen[a] = seen[b]
         /\ Len(dispatches) = 2)
            => dispatches[2] - dispatches[1] >= rate_limit_delay

\* C12: while a caller sleeps out the delay or its upstream call is in flight,
\* another task of the same event loop can run.
C12_OthersProgress ==
    (/\ \E c \in Callers : pc[c] \in {"sleep", "upstream"}
     /\ served < MaxServed) => ENABLED ServeOther

C14_KeyOfRequest ==
    keys # <<>> => (SameRequest(reqs[1], reqs[2]) <=> keys[1] = keys[2])

\* C15: a call whose upstream call failed raises that failure itself and writes
\* nothing to the cache, and the same call made next invokes upstream again.
C15_FailureUnmodified ==
    /\ \A i \in 1..Len(mlog) :
          mlog[i].original # "" =>
              /\ mlog[i].raised = mlog[i].original
              /\ ~mlog[i].wrote
    /\ (/\ Len(mlog) = 2
        /\ mlog[1].original # ""
        /\ mlog[1].arg = mlog[2].arg) => mlog[2].invoked

\* C16: a call of the wrapper whose function returned raises nothing and
\* returns what the function returned, whether or not the cache's get or set
\* failed; a call whose get failed goes on to the function as on a miss.
C16_CacheFailureTolerated ==
    \A i \in 1..Len(mlog) :
        /\ mlog[i].getFailed => mlog[i].invoked
        /\ (mlog[i].invoked /\ mlog[i].original = "") =>
              /\ mlog[i].raised = ""
              /\ mlog[i].result = mlog[i].fetched

\* A call whose get and set both failed returned the value the function gave.
C16_Witness ==
    \E i \in 1..Len(mlog) :
        /\ mlog[i].getFailed
        /\ mlog[i].setFailed
        /\ mlog[i].invoked
        /\ mlog[i].raised = ""
        /\ mlog[i].result = Plain("v1")
        /\ cache = <<>>

\* C17: a request for the term of the request before it, which succeeded, is
\* answered without entering the client: no rate-limiter wait, no upstream call.
C17_SecondFromCache ==
    \A c \in Callers : pc[c] # "idle" => term[c] # prevOk

\* C18: get raises nothing; when its backend call fails it returns None and
\* leaves the cache, the store and the file as they were.
C18_GetNeverRaises ==
    [][last'.op = "get" =>
        /\ ~last'.raised
        /\ BackendFails("get") =>
              /\ last'.result = None
              /\ cache' = cache
              /\ cache_shape' = cache_shape
              /\ store' = store
              /\ file' = file]_vars

\* A get on a persist cache that was loaded as a list returned None.
C18_Witness ==
    /\ last.op = "get"
    /\ cache_type = "persist"
    /\ cache_shape = "list"
    /\ BackendFails("get")
    /\ last.result = None
    /\ ~last.raised

\* C19: delete(k) raises nothing; after it get(k) gives None and every other
\* key gives what it gave before; on a key that get does not find it changes
\* nothing, so a second delete(k) changes nothing.
C19_DeleteIdempotent ==
    [][\A k \in Keys :
        (last'.op = "delete" /\ last'.key = k) =>
            /\ ~last'.raised
            /\ GetValue(k)' = None
            /\ \A j \in Keys \ {k} : GetValue(j)' = GetValue(j)
            /\ GetValue(k) = None => (cache' = cache /\ store' = store)
            /\ DeleteCache(k)' = cache'
            /\ DeleteStore(k)' = store']_vars

\* A delete removed a key that was held and left another key held.
C19_Witness ==
    /\ last.op = "delete"
    /\ last.evicted = {last.key}
    /\ GetValue(last.key) = None
    /\ \E j \in Keys \ {last.key} : GetValue(j) # None

\* C20: after clear(), get gives None for every key and the reported size is
\* 0; for a persist service the file holds no entry either.
C20_ClearEmpties ==
    last.op = "clear" =>
        /\ \A k \in Keys : GetValue(k) = None
        /\ StatsSize = 0
        /\ cache_type = "persist" => LoadItems(file) = <<>>

\* C21: a CachingService constructed with a selector that is none of ttl, lru,
\* persist, disk raises ValueError in the constructor; the service in use
\* always has one of the four variants, also when get and set run.
C21_InvalidSelectorRaises ==
    /\ cache_type \in {"ttl", "lru", "persist", "disk"}
    /\ (attempt.error # "none" /\ attempt.selector.name \notin {"ttl", "lru", "persist", "disk"})
           => attempt.error = "ValueError"
    /\ attempt.error = "" => cache_type = attempt.selector.name

\* An unknown selector was refused and the service there was still answers.
C21_Witness ==
    /\ attempt.selector = [kind |-> "str", name |-> "redis"]
    /\ attempt.error = "ValueError"
    /\ last.op = "get"

\* C22: a service that was constructed has ttl > 0 and maxsize > 0.
C22_PositiveSettings == attempt.error = "" => (ttl > 0 /\ maxsize > 0)

\* C26: last_request_time is the time of the latest dispatch, taken after the
\* wait, and stays so when the upstream call fails; with calls made one at a
\* time, the call that follows a failed one is dispatched no sooner than the
\* full delay after the dispatch of the failed one.
C26_StampedAtDispatch ==
    /\ Len(dispatches) >= 1 => last_request_time = dispatches[Len(dispatches)]
    /\ \A c \in Callers : pc[c] = "upstream" => last_request_time >= wake[c]
    /\ (/\ prevOk = ""
        /\ Len(dispatches) = 2
        /\ \E c \in Callers : pc[c] = "upstream")
           => dispatches[2] - dispatches[1] >= rate_limit_delay

\* A call failed upstream and the next one, begun within the delay, went out
\* exactly one delay after the failed one.
C26_Witness ==
    /\ rate_limit_delay > 0
    /\ prevOk = ""
    /\ Len(dispatches) = 2
    /\ dispatches[2] = dispatches[1] + rate_limit_delay
    /\ \E c \in Callers, o \in Callers :
          /\ c # o
          /\ pc[c] = "upstream"
          /\ outcome[o] = "raised"
          /\ wake[c] = dispatches[2]

\* C27: a call answered from the cache, without invoking the function, returns
\* a value other than None; and when a call invoked the function and got None,
\* the same call made next invokes the function again.
C27_NoneIsMiss ==
    /\ \A i \in 1..Len(mlog) :
          (~mlog[i].invoked /\ mlog[i].raised = "") => mlog[i].result # None
    /\ (/\ Len(mlog) = 2
        /\ mlog[1].arg = mlog[2].arg
        /\ mlog[1].invoked
        /\ mlog[1].raised = ""
        /\ mlog[1].result = None)
           => mlog[2].invoked

\* None was fetched and stored, and the same call fetched again.
C27_Witness ==
    /\ Len(mlog) = 2
    /\ mlog[1].arg = mlog[2].arg
    /\ mlog[1].invoked
    /\ mlog[1].wrote
    /\ ~mlog[1].setFailed
    /\ mlog[1].result = None
    /\ ~mlog[2].getFailed
    /\ mlog[2].invoked
    /\ mlog[2].fetched = None

\* C29: right after initialize() on a persist service, get(k) gives for every
\* key what cache.json holds for it, and None when the file holds nothing for
\* it (the file absent, not loadable, or without the key), whatever was set
\* before; a mapping that was loaded has the keys of the file and no other.
C29_InitializeReplaces ==
    (cache_type = "persist" /\ last.op = "initialize") =>
        /\ \A k \in Keys :
              GetValue(k) = (IF file.kind = "object" /\ k \in {file.items[i].key : i \in 1..Len(file.items)}
                             THEN Lookup(file.items, k) ELSE None)
        /\ cache_shape = "mapping" =>
              KeysOf(cache) = (IF file.kind = "object" THEN KeysOf(file.items) ELSE {})

\* A key set before initialize() is gone after it, while a key of the file is
\* returned.
C29_Witness ==
    /\ cache_type = "persist"
    /\ last.op = "initialize"
    /\ stored.present
    /\ file.kind = "object"
    /\ ~Has(file.items, stored.key)
    /\ GetValue(stored.key) = None
    /\ \E k \in Keys : GetValue(k) # None

\* The keys the service holds an entry for.
Entries ==
    {k \in Keys :
        CASE cache_type = "ttl" -> TTLContains(cache, k, now)
          [] cache_type = "lru" -> Has(cache, k)
          [] cache_type = "persist" -> cache_shape = "mapping" /\ Has(cache, k)
          [] OTHER -> Has(store, k)}

\* C23: in every state get_stats() gives exactly hits, misses, size, max_size
\* and type; for disk the two counters, the bytes stored and maxsize * 1024 *
\* 1024; for the other variants null counters, the number of entries held and
\* maxsize.
C23_StatsRecord ==
    /\ DOMAIN GetStats = {"hits", "misses", "size", "max_size", "type"}
    /\ GetStats.type = cache_type
    /\ IF cache_type = "disk"
       THEN /\ GetStats.hits = "int" /\ GetStats.misses = "int"
            /\ GetStats.max_size = maxsize * 1024 * 1024
       ELSE /\ GetStats.hits = "null" /\ GetStats.misses = "null"
            /\ GetStats.max_size = maxsize
            /\ GetStats.size = Cardinality(Entries)

\* No set ended after the set of s.
LastEnded(s) ==
    \A o \in Setters \ {s} : ~(job[o].state = "done" /\ job[o].seq > job[s].seq)

\* C24: a set handed to the worker pool whose caller is cancelled is never
\* given up, and once it has ended later gets return its value; no caller is
\* cancelled but the one that was.
C24_DispatchedRunsOn ==
    \A s \in Setters :
        caller[s] = "cancelled" =>
            /\ job[s].state \in {"queued", "running", "done"}
            /\ (job[s].state = "done" /\ LastEnded(s)) =>
                  \A k \in Keys : job[s].key = k => GetValue(k) = job[s].value
            /\ \A o \in Setters \ {s} : caller[o] = "cancelled" => job[o].cancelledAt # "none"

\* C24 as amended: a set that a worker thread had started when its caller was
\* cancelled is never given up, and once it has ended, unless the write culled
\* its own entry or a later set has ended, gets return its value; a set still
\* queued at the cancel is given up and never runs; no caller is cancelled but
\* the one that was.
C24_StartedRunsOn ==
    \A s \in Setters :
        caller[s] = "cancelled" =>
            /\ job[s].cancelledAt = "running" => job[s].state \in {"running", "done"}
            /\ job[s].cancelledAt = "queued" => job[s].state = "dropped"
            /\ (job[s].state = "done" /\ job[s].kept /\ LastEnded(s)) =>
                  \A k \in Keys : job[s].key = k => GetValue(k) = job[s].value
            /\ \A o \in Setters \ {s} : caller[o] = "cancelled" => job[o].cancelledAt # "none"

\* A caller was cancelled while its set ran; the set ended and a get returned
\* its value, while the other caller returned from its own set.
C24_Witness ==
    \E s \in Setters, o \in Setters :
        /\ s # o
        /\ caller[s] = "cancelled"
        /\ job[s].cancelledAt = "running"
        /\ job[s].state = "done"
        /\ caller[o] = "returned"
        /\ last.op = "get"
        /\ last.key = job[s].key
        /\ last.result = job[s].value

\* Both sets, on one key, have ended and both callers have returned.
BothSet(k) ==
    \A s \in Setters :
        job[s].state = "done" /\ job[s].key = k /\ caller[s] = "returned"

\* The set that ended last.
Later == CHOOSE s \in Setters : LastEnded(s)

C28_NoCoalescing ==
    /\ \A i \in 1..Len(mlog) :
          mlog[i].overlapped =>
              /\ mlog[i].invoked
              /\ mlog[i].raised = "" => mlog[i].result = mlog[i].fetched
    /\ (/\ Len(mlog) = 2
        /\ \A t \in Tasks : mpc[t] = "idle"
        /\ mlog[1].arg = mlog[2].arg
        /\ mlog[1].overlapped /\ mlog[2].overlapped
        /\ mlog[1].wrote /\ mlog[2].wrote)
           => \A k \in Keys :
                 k = StoreKey(mlog[2].arg) => GetValue(k) = mlog[2].fetched


RECURSIVE SumOver(_, _)
SumOver(f, S) ==
    IF S = {} THEN 0
    ELSE LET u == CHOOSE x \in S : TRUE IN f[u] + SumOver(f, S \ {u})

\* The requests of ip let through with a time in (t - window_size, t].
AcceptedIn(ip, t) ==
    SumOver(accepted[ip], {u \in 0..MaxGateTime : t - window_size < u /\ u <= t})

\* C30: for every IP and every time t, the requests accepted from the IP with
\* a time in (t - W, t] are at most L; the history of an IP holds accepted
\* requests only, so a refused request is not in it.
C30_AtMostLimit ==
    \A ip \in IPs :
        /\ \A t \in 0..MaxGateTime : 2 * AcceptedIn(ip, t) <= rate_limit2
        /\ \A u \in 0..MaxGateTime :
              Len(SelectSeq(requests[ip], LAMBDA x : x = u)) <= accepted[ip][u]

====
